---------------------------- MODULE Spec2Model ----------------------------
(***************************************************************************)
(* Jira sprint flow metrics (src/main.py): the changelog extractors        *)
(* (first-entry status dates, blocked days, unassigned peer-review time),  *)
(* row assembly, the derived metrics and the "Fetch & Build Excel"         *)
(* handler that runs them over a batch of issues.                          *)
(*                                                                         *)
(* Time is counted in seconds since an epoch (UTC).  A datetime.now() call *)
(* returns the variable now; every call of one handler run falls into the  *)
(* same instant at the resolution of the model.                            *)
(***************************************************************************)
EXTENDS Integers, Sequences, FiniteSets

VARIABLES
    provider,      \* issue key -> changelog the Jira API returns for it
    created_raw,   \* issue key -> the issue's fields.created
    now,           \* datetime.now(timezone.utc)
    pc,            \* handler position: "idle", "loop", "done", "error"
    todo,          \* issues of the for-loop not yet processed
    rows,          \* rows assembled so far (local list of the handler)
    status_dates,  \* status_dates of the issue processed last
    df,            \* the frame st.dataframe shows (with derived columns)
    err            \* issue key named by st.error (0: none, -1: the search)

vars == <<provider, created_raw, now, pc, todo, rows, status_dates, df, err>>

(***************************************************************************)
(* Bounds of the model.                                                    *)
(***************************************************************************)
MaxLen == 3        \* events per changelog
MaxTick == 4       \* event timestamps are 0..MaxTick thirds of a day
MaxDay == 2        \* event dates of the metrics scenarios are days 0..MaxDay
MaxIssues == 2     \* issues in a batch

SecondsPerDay == 86400
TickSeconds == SecondsPerDay \div 3

(***************************************************************************)
(* Values.  None is Python's None; a "created" string is a parseable       *)
(* timestamp ("ts"), an ISO-like string both strptime formats reject but   *)
(* whose part before "T" is a date ("isoish"), any other non-empty string  *)
(* ("junk"), or absent/empty ("none").                                     *)
(***************************************************************************)
None == "None"
Falsy(x) == x \in {None, ""}

TS(t) == [k |-> "ts", t |-> t]
IsoIsh(t) == [k |-> "isoish", t |-> t]
Junk == [k |-> "junk", t |-> 0]
NoCreated == [k |-> "none", t |-> 0]

Item(f, from, to) == [field |-> f, from |-> from, to |-> to]
Change(c, items) == [created |-> c, items |-> items]

\* A date string "%Y-%m-%d" (day number d), the empty string, or a string
\* that is no date.
DateStr(d) == [k |-> "date", d |-> d]
Blank == [k |-> "blank", d |-> 0]
JunkStr == [k |-> "junk", d |-> 0]

\* A number or NaN/NaT.
Num(v) == [def |-> TRUE, v |-> v]
NaN == [def |-> FALSE, v |-> 0]

EmptyDict == [s \in {} |-> Blank]

(***************************************************************************)
(* Utilities                                                               *)
(***************************************************************************)
\* The date is the timestamp's own calendar date; all timestamps of a log
\* are taken to carry the same UTC offset.
parse_datetime(c) ==
    IF c.k = "none" THEN Blank
    ELSE IF c.k = "ts" THEN DateStr(c.t \div SecondsPerDay)
    ELSE IF c.k = "isoish" THEN DateStr(c.t \div SecondsPerDay)
    ELSE JunkStr

parse_datetime_raw(c, clock) ==
    IF c.k = "ts" THEN c.t ELSE clock

\* (a - b).days of two datetimes: timedelta normalises to a floor.
Days(seconds) == seconds \div SecondsPerDay

\* round(total_seconds / 86400, 2), in hundredths of a day.
Round2(seconds) ==
    LET n == seconds * 100
        q == n \div SecondsPerDay
        r == n % SecondsPerDay
    IN  IF 2 * r < SecondsPerDay THEN q
        ELSE IF 2 * r > SecondsPerDay THEN q + 1
        ELSE IF q % 2 = 0 THEN q ELSE q + 1

fetch_issue_changelog(issue_key) == provider[issue_key]

Min(S) == CHOOSE m \in S : \A x \in S : m <= x

min_date(a, b, c) ==
    LET valid == {x \in {a, b, c} : x.k # "blank"}
        parsed == {x.d : x \in {y \in valid : y.k = "date"}}
    IN  IF valid = {} THEN Blank
        ELSE IF parsed = {} THEN Blank
        ELSE DateStr(Min(parsed))

(***************************************************************************)
(* get_status_transition_dates                                             *)
(***************************************************************************)
RECURSIVE status_items(_, _, _)
status_items(items, created, sd) ==
    IF items = <<>> THEN sd
    ELSE LET item == Head(items)
             status == item.to
             date == parse_datetime(created)
             sd2 == IF item.field = "status" /\ ~Falsy(status)
                       /\ status \notin DOMAIN sd
                    THEN [s \in DOMAIN sd \cup {status} |->
                             IF s = status THEN date ELSE sd[s]]
                    ELSE sd
         IN  status_items(Tail(items), created, sd2)

RECURSIVE status_changes(_, _)
status_changes(changelog, sd) ==
    IF changelog = <<>> THEN sd
    ELSE LET change == Head(changelog)
         IN  IF change.created.k = "none"
             THEN status_changes(Tail(changelog), sd)
             ELSE status_changes(Tail(changelog),
                                 status_items(change.items, change.created, sd))

get_status_transition_dates(changelog) == status_changes(changelog, EmptyDict)

(***************************************************************************)
(* get_blocked_days                                                        *)
(***************************************************************************)
IsBlockedItem(item) ==
    item.field = "status" /\ (item.to = "Blocked" \/ item.from = "Blocked")

RECURSIVE blocked_items(_, _, _, _)
blocked_items(items, created, clock, acc) ==
    IF items = <<>> THEN acc
    ELSE blocked_items(Tail(items), created, clock,
            IF IsBlockedItem(Head(items))
            THEN Append(acc, parse_datetime_raw(created, clock))
            ELSE acc)

RECURSIVE blocked_dates(_, _, _)
blocked_dates(changelog, clock, acc) ==
    IF changelog = <<>> THEN acc
    ELSE LET change == Head(changelog)
         IN  IF change.created.k = "none"
             THEN blocked_dates(Tail(changelog), clock, acc)
             ELSE blocked_dates(Tail(changelog), clock,
                     blocked_items(change.items, change.created, clock, acc))

\* for i in range(0, len(blocked_dates), 2)
RECURSIVE blocked_sum(_, _, _)
blocked_sum(dates, i, clock) ==
    IF i > Len(dates) THEN 0
    ELSE LET start_date == dates[i]
             end_date == IF i + 1 <= Len(dates) THEN dates[i + 1] ELSE clock
         IN  Days(end_date - start_date) + blocked_sum(dates, i + 2, clock)

\* The pairing loop with an unterminated last interval counted as
\* zero-length.
RECURSIVE blocked_sum_open_zero(_, _, _)
blocked_sum_open_zero(dates, i, clock) ==
    IF i > Len(dates) THEN 0
    ELSE LET start_date == dates[i]
             end_date == IF i + 1 <= Len(dates) THEN dates[i + 1] ELSE start_date
         IN  Days(end_date - start_date) + blocked_sum_open_zero(dates, i + 2, clock)

get_blocked_days_open_zero(changelog, clock) ==
    blocked_sum_open_zero(blocked_dates(changelog, clock, <<>>), 1, clock)

get_blocked_days(changelog, clock) ==
    blocked_sum(blocked_dates(changelog, clock, <<>>), 1, clock)

(***************************************************************************)
(* get_peer_review_unassigned_time                                         *)
(***************************************************************************)
Period(start, end, open) == [start |-> start, end |-> end, open |-> open]

\* for period in reversed(peer_review_periods): if period["end"] is None: ...
close_last_open(periods, change_time) ==
    LET opened == {i \in DOMAIN periods : periods[i].open}
    IN  IF opened = {} THEN periods
        ELSE LET last == CHOOSE i \in opened : \A j \in opened : j <= i
             IN  [periods EXCEPT ![last] = Period(periods[last].start, change_time, FALSE)]

\* One item of a change: acc is [periods, assignee_changes].
review_item(item, change_time, acc) ==
    IF item.field = "status"
    THEN IF item.to = "Peer Review"
         THEN [acc EXCEPT !.periods = Append(@, Period(change_time, 0, TRUE))]
         ELSE IF item.from = "Peer Review" /\ acc.periods # <<>>
         THEN [acc EXCEPT !.periods = close_last_open(@, change_time)]
         ELSE acc
    ELSE IF item.field = "assignee"
    THEN [acc EXCEPT !.assignee_changes =
             Append(@, [time |-> change_time, from |-> item.from, to |-> item.to])]
    ELSE acc

RECURSIVE review_items(_, _, _)
review_items(items, change_time, acc) ==
    IF items = <<>> THEN acc
    ELSE review_items(Tail(items), change_time,
                      review_item(Head(items), change_time, acc))

RECURSIVE review_changes(_, _, _)
review_changes(changelog, clock, acc) ==
    IF changelog = <<>> THEN acc
    ELSE LET change == Head(changelog)
         IN  IF change.created.k = "none"
             THEN review_changes(Tail(changelog), clock, acc)
             ELSE review_changes(Tail(changelog), clock,
                     review_items(change.items,
                                  parse_datetime_raw(change.created, clock), acc))

review_scan(changelog, clock) ==
    review_changes(changelog, clock, [periods |-> <<>>, assignee_changes |-> <<>>])

\* peer_review_periods after the open ends are set to now.
peer_review_periods(changelog, clock) ==
    LET ps == review_scan(changelog, clock).periods
    IN  [i \in DOMAIN ps |->
            IF ps[i].open THEN Period(ps[i].start, clock, FALSE) ELSE ps[i]]

RECURSIVE SelectSeq2(_, _, _)
SelectSeq2(s, lo, hi) ==
    IF s = <<>> THEN <<>>
    ELSE IF lo <= Head(s).time /\ Head(s).time <= hi
         THEN <<Head(s)>> \o SelectSeq2(Tail(s), lo, hi)
         ELSE SelectSeq2(Tail(s), lo, hi)

\* list.sort(key=time) is stable: c goes after every element not later than it.
RECURSIVE insert_by_time(_, _)
insert_by_time(sorted, c) ==
    IF sorted = <<>> THEN <<c>>
    ELSE IF Head(sorted).time <= c.time
         THEN <<Head(sorted)>> \o insert_by_time(Tail(sorted), c)
         ELSE <<c>> \o sorted

RECURSIVE sort_by_time(_, _)
sort_by_time(s, acc) ==
    IF s = <<>> THEN acc
    ELSE sort_by_time(Tail(s), insert_by_time(acc, Head(s)))

\* The walk over one period's relevant changes: the unassigned seconds.
RECURSIVE walk_changes(_, _, _, _)
walk_changes(changes, current_time, assignee, period_end) ==
    IF changes = <<>>
    THEN IF assignee = None THEN period_end - current_time ELSE 0
    ELSE LET change == Head(changes)
         IN  (IF assignee = None THEN change.time - current_time ELSE 0)
             + walk_changes(Tail(changes), change.time, change.to, period_end)

period_unassigned(period, assignee_changes) ==
    walk_changes(sort_by_time(SelectSeq2(assignee_changes, period.start, period.end),
                              <<>>),
                 period.start, None, period.end)

RECURSIVE total_unassigned(_, _)
total_unassigned(periods, assignee_changes) ==
    IF periods = <<>> THEN 0
    ELSE period_unassigned(Head(periods), assignee_changes)
         + total_unassigned(Tail(periods), assignee_changes)

\* The result in hundredths of a day.
get_peer_review_unassigned_time(issue_key, changelog, clock) ==
    IF issue_key = 0 THEN 0
    ELSE Round2(total_unassigned(peer_review_periods(changelog, clock),
                                 review_scan(changelog, clock).assignee_changes))

(***************************************************************************)
(* Row assembly (the body of "for issue in issues") and the calculated     *)
(* columns.  The static columns (issue type, story points, priority,       *)
(* project code, team, sprint) are copied from the search result and take  *)
(* no part in any computation below; they are left out of the row.         *)
(***************************************************************************)
\* status_dates.get(status, "")
DictGet(sd, status) == IF status \in DOMAIN sd THEN sd[status] ELSE Blank

\* Python's "a or b" on strings.
Or(a, b) == IF a.k # "blank" THEN a ELSE b

\* The "Backlog" cell without the creation date to fall back on.
backlog_cell_no_fallback(backlog, created) == backlog

\* The "Backlog" cell: backlog or (created_raw and parse_datetime(created_raw)) or ""
backlog_cell(backlog, created) ==
    Or(backlog, IF created.k = "none" THEN Blank ELSE parse_datetime(created))

assemble_row(key, sd, changelog, created, clock) ==
    LET testing == DictGet(sd, "Testing")
        approved == DictGet(sd, "Approved for Release")
        closed == DictGet(sd, "Closed")
    IN  [ID |-> key,
         Backlog |-> backlog_cell(DictGet(sd, "Backlog"), created),
         InProgress |-> Or(DictGet(sd, "In Progress"), DictGet(sd, "InProgress")),
         PeerReview |-> DictGet(sd, "Peer Review"),
         PendingDeployment |-> DictGet(sd, "Pending Deployment"),
         Testing |-> testing,
         Approved |-> approved,
         Closed |-> closed,
         BlockedDays |-> get_blocked_days(changelog, clock),
         Unassigned |-> get_peer_review_unassigned_time(key, changelog, clock),
         EndDate |-> min_date(testing, approved, closed)]

\* pd.to_datetime(column, errors="coerce")
to_datetime(x) == IF x.k = "date" THEN Num(x.d) ELSE NaN

\* (a - b).dt.days, and the same plus one.
DayDiff(a, b) ==
    IF to_datetime(a).def /\ to_datetime(b).def
    THEN Num(to_datetime(a).v - to_datetime(b).v) ELSE NaN

PlusOne(x) == IF x.def THEN Num(x.v + 1) ELSE NaN

FillNa0(x) == IF x.def THEN x ELSE Num(0)

\* The ratio cycle/lead as a fraction, 0 as 0/1.
flow_efficiency(cycle, lead) ==
    IF cycle.def /\ lead.def /\ lead.v # 0
    THEN [num |-> cycle.v, den |-> lead.v]
    ELSE [num |-> 0, den |-> 1]

derive(r) ==
    LET cycle == PlusOne(DayDiff(r.EndDate, r.InProgress))
        lead == PlusOne(DayDiff(r.EndDate, r.Backlog))
        pr == FillNa0(DayDiff(r.PendingDeployment, r.PeerReview))
    IN  [row |-> r,
         CycleTime |-> cycle,
         LeadTime |-> lead,
         InProgressTime |-> DayDiff(r.PeerReview, r.InProgress),
         PRTime |-> pr,
         ActivePRTime |-> pr.v * 100 - r.Unassigned,
         PDTime |-> PlusOne(DayDiff(r.EndDate, r.PendingDeployment)),
         RampTime |-> DayDiff(r.InProgress, r.Backlog),
         FlowEfficiency |-> flow_efficiency(cycle, lead)]

(***************************************************************************)
(* The handler and its environment.                                        *)
(***************************************************************************)
Keys == DOMAIN provider

\* Before the button is pressed, Jira records a change of some issue.
RecordEvent(V) ==
    /\ pc = "idle"
    /\ \E k \in Keys, e \in V :
          /\ Len(provider[k]) < MaxLen
          /\ provider' = [provider EXCEPT ![k] = Append(@, e)]
    /\ UNCHANGED <<created_raw, now, pc, todo, rows, status_dates, df, err>>

\* fetch_btn: fetch_issues returns the sprint's issues.
FetchIssues ==
    /\ pc = "idle"
    /\ pc' = "loop"
    /\ todo' = [i \in 1..Cardinality(Keys) |-> i]
    /\ UNCHANGED <<provider, created_raw, now, rows, status_dates, df, err>>

\* fetch_issues raises; "except Exception as e: st.error(...)".
FetchIssuesFails ==
    /\ pc = "idle"
    /\ pc' = "error"
    /\ err' = -1
    /\ UNCHANGED <<provider, created_raw, now, todo, rows, status_dates, df>>

\* One pass of the loop body with the three changelog fetches answered 200.
ProcessIssue ==
    /\ pc = "loop"
    /\ todo # <<>>
    /\ LET key == Head(todo)
           changelog == fetch_issue_changelog(key)
           sd == get_status_transition_dates(changelog)
       IN  /\ status_dates' = sd
           /\ rows' = Append(rows, assemble_row(key, sd, changelog,
                                                created_raw[key], now))
    /\ todo' = Tail(todo)
    /\ UNCHANGED <<provider, created_raw, now, pc, df, err>>

\* One of the three changelog fetches of the issue is answered with an
\* error: fetch_issue_changelog raises, nothing in the loop catches it, and
\* the handler's except clause shows the message (which names the issue).
ProcessIssueFails ==
    /\ pc = "loop"
    /\ todo # <<>>
    /\ pc' = "error"
    /\ err' = Head(todo)
    /\ UNCHANGED <<provider, created_raw, now, todo, rows, status_dates, df>>

\* After the loop: the frame with its calculated columns is shown.
Finish ==
    /\ pc = "loop"
    /\ todo = <<>>
    /\ df' = [i \in DOMAIN rows |-> derive(rows[i])]
    /\ pc' = "done"
    /\ UNCHANGED <<provider, created_raw, now, todo, rows, status_dates, err>>

InitWith(n, Created, Clocks) ==
    /\ provider = [k \in 1..n |-> <<>>]
    /\ created_raw \in [1..n -> Created]
    /\ now \in Clocks
    /\ pc = "idle"
    /\ todo = <<>>
    /\ rows = <<>>
    /\ status_dates = EmptyDict
    /\ df = <<>>
    /\ err = 0

Handler ==
    \/ FetchIssues
    \/ FetchIssuesFails
    \/ ProcessIssue
    \/ ProcessIssueFails
    \/ Finish

(***************************************************************************)
(* The changes Jira may record, by scenario.                               *)
(***************************************************************************)
Ticks == {k * TickSeconds : k \in 0..MaxTick}
Horizon == MaxTick * TickSeconds
DayStamps == {d * SecondsPerDay : d \in 0..MaxDay}

EnterBlocked == Item("status", "In Progress", "Blocked")
ExitBlocked == Item("status", "Blocked", "In Progress")
EnterReview == Item("status", "In Progress", "Peer Review")
ExitReview == Item("status", "Peer Review", "Testing")
Assign == Item("assignee", None, "dev")
Unassign == Item("assignee", "dev", None)
Enter(status) == Item("status", "Open", status)

BlockedEvents ==
    {Change(c, <<it>>) : c \in {TS(t) : t \in Ticks} \cup {Junk},
                         it \in {EnterBlocked, ExitBlocked}}
    \cup {Change(NoCreated, <<EnterBlocked>>),
          Change(TS(0), <<Enter("Testing")>>),
          Change(TS(0), <<ExitBlocked, Assign>>)}

IntervalEvents ==
    {Change(c, <<it>>) : c \in {TS(t) : t \in Ticks} \cup {Junk},
                         it \in {EnterBlocked, ExitBlocked,
                                 EnterReview, ExitReview, Assign, Unassign}}
    \cup {Change(NoCreated, <<EnterReview>>)}

MetricEvents ==
    {Change(c, <<Enter(s)>>) : c \in {TS(t) : t \in DayStamps} \cup {Junk},
                               s \in {"Backlog", "In Progress", "Testing"}}
    \cup {Change(IsoIsh(0), <<Enter("Closed")>>)}

BatchEvents ==
    {Change(TS(0), <<Enter("In Progress")>>), Change(TS(Horizon), <<Enter("Testing")>>)}

(***************************************************************************)
(* Specifications: a batch run, and one-issue runs over each scenario.     *)
(***************************************************************************)
Init == InitWith(MaxIssues, {TS(0)}, {Horizon})
Next == RecordEvent(BatchEvents) \/ Handler
Spec == Init /\ [][Next]_vars

InitBlocked == InitWith(1, {TS(0)}, {Horizon})
NextBlocked == RecordEvent(BlockedEvents) \/ Handler
SpecBlocked == InitBlocked /\ [][NextBlocked]_vars

InitIntervals == InitWith(1, {TS(0)}, {Horizon})
NextIntervals == RecordEvent(IntervalEvents) \/ Handler
SpecIntervals == InitIntervals /\ [][NextIntervals]_vars

InitMetrics == InitWith(1, {NoCreated, TS(0), Junk}, {MaxDay * SecondsPerDay})
NextMetrics == RecordEvent(MetricEvents) \/ Handler
SpecMetrics == InitMetrics /\ [][NextMetrics]_vars

(***************************************************************************)
(* Properties.  Log(i) is the changelog the i-th assembled row was         *)
(* computed from (the provider's log does not change during a run).        *)
(***************************************************************************)
Log(i) == provider[rows[i].ID]

Parseable(log) == \A i \in DOMAIN log : log[i].created.k = "ts"

\* Delivered oldest first, every timestamp parseable and not after now.
Chronological(log) ==
    /\ Parseable(log)
    /\ \A i \in DOMAIN log : log[i].created.t <= now
    /\ \A i, j \in DOMAIN log : i < j => log[i].created.t <= log[j].created.t

DistinctTimes(log) ==
    \A i, j \in DOMAIN log : i # j => log[i].created.t # log[j].created.t

RECURSIVE InsertChange(_, _)
InsertChange(sorted, c) ==
    IF sorted = <<>> THEN <<c>>
    ELSE IF Head(sorted).created.t <= c.created.t
         THEN <<Head(sorted)>> \o InsertChange(Tail(sorted), c)
         ELSE <<c>> \o sorted

RECURSIVE SortedByTimestamp(_)
SortedByTimestamp(log) ==
    IF log = <<>> THEN <<>>
    ELSE InsertChange(SortedByTimestamp(SubSeq(log, 1, Len(log) - 1)), log[Len(log)])

\* Only single-item Blocked enter/exit events, all at distinct parseable times.
BlockedOnlyDistinct(log) ==
    /\ Parseable(log)
    /\ \A i \in DOMAIN log : log[i].items \in {<<EnterBlocked>>, <<ExitBlocked>>}
    /\ \A i, j \in DOMAIN log : i # j => log[i].created.t # log[j].created.t

\* C1: for a changelog of Blocked enter/exit events with distinct timestamps,
\* the blocked days of the row equal the blocked days of the timestamp-sorted
\* log, whatever the order of delivery (every permutation of a log is a log
\* the provider may deliver).
C1_BlockedDaysOrderIndependent ==
    \A i \in DOMAIN rows :
        BlockedOnlyDistinct(Log(i)) =>
            rows[i].BlockedDays = get_blocked_days(SortedByTimestamp(Log(i)), now)

\* The matching events e1..eN of a log, as the times the code reads from them.
RECURSIVE MatchingTimes(_)
MatchingTimes(log) ==
    IF log = <<>> THEN <<>>
    ELSE LET ch == log[Len(log)]
             hits == {j \in DOMAIN ch.items :
                         /\ ch.items[j].field = "status"
                         /\ "Blocked" \in {ch.items[j].to, ch.items[j].from}}
             stamp == IF ch.created.k = "ts" THEN ch.created.t ELSE now
         IN  MatchingTimes(SubSeq(log, 1, Len(log) - 1))
             \o (IF ch.created.k = "none" THEN <<>>
                 ELSE [n \in 1..Cardinality(hits) |-> stamp])

FloorDays(seconds) ==
    CHOOSE d \in -(MaxTick + MaxDay + 2)..(MaxTick + MaxDay + 2) :
        d * SecondsPerDay <= seconds /\ seconds < (d + 1) * SecondsPerDay

RECURSIVE PairedDays(_, _)
PairedDays(m, k) ==
    IF k = 0 THEN 0
    ELSE FloorDays(m[2 * k] - m[2 * k - 1]) + PairedDays(m, k - 1)

PositionalBlockedDays(m) ==
    PairedDays(m, Len(m) \div 2)
    + (IF Len(m) % 2 = 1 THEN FloorDays(now - m[Len(m)]) ELSE 0)

\* C2: blocked intervals are paired by position (e1,e2), (e3,e4), ...; an odd
\* last event opens an interval that ends at now; blocked days are the sum of
\* the intervals' whole-day (floor) lengths.  Two consecutive "enter Blocked"
\* events at t0 and t1 give floor(t1 - t0).
C2_PositionalPairing ==
    \A i \in DOMAIN rows :
        /\ rows[i].BlockedDays = PositionalBlockedDays(MatchingTimes(Log(i)))
        /\ \A t0, t1 \in Ticks :
              Log(i) = <<Change(TS(t0), <<EnterBlocked>>),
                         Change(TS(t1), <<EnterBlocked>>)>>
              => rows[i].BlockedDays = FloorDays(t1 - t0)

\* C2's case: three matching events, the first interval a whole day or more,
\* the odd last one open for a whole day or more.
C2_Witness ==
    \E i \in DOMAIN rows :
        LET m == MatchingTimes(Log(i))
        IN  /\ Len(m) = 3
            /\ m[2] - m[1] >= SecondsPerDay
            /\ now - m[3] >= SecondsPerDay
            /\ rows[i].BlockedDays >= 2

\* The statuses a log enters, and the times of the events entering one.
EntersAt(log, s) ==
    {i \in DOMAIN log :
        \E j \in DOMAIN log[i].items :
            log[i].items[j].field = "status" /\ log[i].items[j].to = s}

Entered(log) == {s \in {"Backlog", "In Progress", "Testing", "Closed"} :
                    EntersAt(log, s) # {}}

\* C3: for a changelog in any delivery order, the first-entry map holds, for
\* each status some status event enters, the calendar date of the
\* chronologically earliest event entering it.
C3_FirstEntryIsEarliest ==
    rows # <<>> =>
        LET log == Log(Len(rows))
        IN  Parseable(log) =>
                \A s \in Entered(log) :
                    /\ s \in DOMAIN status_dates
                    /\ status_dates[s] =
                          DateStr(FloorDays(Min({log[i].created.t :
                                                    i \in EntersAt(log, s)})))

\* C4: every reconstructed interval (Peer Review period, Blocked pair) has
\* start <= end once an open end is resolved to now, for every changelog
\* whose timestamps are all <= now, in any delivery order.
C4_StartBeforeEnd ==
    \A i \in DOMAIN rows :
        (Parseable(Log(i)) /\ \A n \in DOMAIN Log(i) : Log(i)[n].created.t <= now)
        => /\ \A n \in DOMAIN peer_review_periods(Log(i), now) :
                 peer_review_periods(Log(i), now)[n].start
                     <= peer_review_periods(Log(i), now)[n].end
           /\ LET m == MatchingTimes(Log(i))
              IN  /\ \A k \in 1..(Len(m) \div 2) : m[2 * k - 1] <= m[2 * k]
                  /\ Len(m) % 2 = 1 => m[Len(m)] <= now

\* C5: the review windows of one item are pairwise time-disjoint (they share
\* at most an end point), also after two consecutive entries into Peer
\* Review.  Stated for logs delivered oldest first, no two events at the
\* same instant.
C5_ReviewWindowsDisjoint ==
    \A i \in DOMAIN rows :
        (Chronological(Log(i)) /\ DistinctTimes(Log(i))) =>
            LET ps == peer_review_periods(Log(i), now)
            IN  \A a, b \in DOMAIN ps :
                    a < b => \/ ps[a].end <= ps[b].start
                             \/ ps[b].end <= ps[a].start

RECURSIVE SumLengths(_)
SumLengths(ps) ==
    IF ps = <<>> THEN 0
    ELSE (Head(ps).end - Head(ps).start) + SumLengths(Tail(ps))

\* C6: 0 <= unassigned duration <= sum of the review interval lengths (to
\* the half hundredth of a day the result is rounded by), and 0 when there
\* is no review interval.  Stated for logs whose timestamps all parse.
C6_UnassignedBounded ==
    \A i \in DOMAIN rows :
        Parseable(Log(i)) =>
        LET ps == peer_review_periods(Log(i), now)
        IN  /\ 0 <= rows[i].Unassigned
            /\ rows[i].Unassigned * SecondsPerDay
                  <= 100 * SumLengths(ps) + SecondsPerDay \div 2
            /\ ps = <<>> => rows[i].Unassigned = 0

\* C7: flow efficiency is never negative, is 0 when lead time is 0 or
\* undefined or cycle time is undefined, and is cycle time / lead time
\* otherwise, with cycle = end - in_progress + 1, lead = end - backlog + 1.
\* Stated for logs delivered oldest first.
C7_FlowEfficiency ==
    \A j \in DOMAIN df :
        Chronological(provider[df[j].row.ID]) =>
            LET r == df[j].row
                fe == df[j].FlowEfficiency
                dated == r.EndDate.k = "date"
                cycleDef == dated /\ r.InProgress.k = "date"
                leadDef == dated /\ r.Backlog.k = "date"
                cycle == r.EndDate.d - r.InProgress.d + 1
                lead == r.EndDate.d - r.Backlog.d + 1
            IN  /\ fe.den # 0
                /\ fe.num * fe.den >= 0
                /\ IF cycleDef /\ leadDef /\ lead # 0
                   THEN fe.num * lead = cycle * fe.den
                   ELSE fe.num = 0

NoBacklogTransition(log) == EntersAt(log, "Backlog") = {}

\* C8 as stated: with no transition into Backlog, lead time and ramp time are
\* blank, and cycle time is computed when in_progress and end_date are present.
C8_BlankWithoutBacklog ==
    \A j \in DOMAIN df :
        NoBacklogTransition(provider[df[j].row.ID]) =>
            LET r == df[j].row
            IN  /\ ~df[j].LeadTime.def
                /\ ~df[j].RampTime.def
                /\ (r.InProgress.k = "date" /\ r.EndDate.k = "date")
                       => df[j].CycleTime = Num(r.EndDate.d - r.InProgress.d + 1)

\* C8 amended: with no transition into Backlog, the issue's creation date
\* stands in for the backlog date: lead time and ramp time are computed from
\* it, and are blank only when the issue has no parseable creation date or
\* the other operand is missing; cycle time is computed exactly when
\* in_progress and end_date are both present.
C8_CreationDateStandsIn ==
    \A j \in DOMAIN df :
        NoBacklogTransition(provider[df[j].row.ID]) =>
            LET r == df[j].row
                c == created_raw[r.ID]
                has == c.k \in {"ts", "isoish"}
                day == FloorDays(c.t)
                ip == r.InProgress
                e == r.EndDate
            IN  /\ df[j].LeadTime =
                      (IF has /\ e.k = "date" THEN Num(e.d - day + 1) ELSE NaN)
                /\ df[j].RampTime =
                      (IF has /\ ip.k = "date" THEN Num(ip.d - day) ELSE NaN)
                /\ df[j].CycleTime =
                      (IF ip.k = "date" /\ e.k = "date"
                       THEN Num(e.d - ip.d + 1) ELSE NaN)

\* C8's case: no Backlog transition, the issue has a creation date, and lead,
\* ramp and cycle time are all computed.
C8_Witness ==
    \E j \in DOMAIN df :
        /\ NoBacklogTransition(provider[df[j].row.ID])
        /\ created_raw[df[j].row.ID].k = "ts"
        /\ df[j].row.InProgress.k = "date"
        /\ df[j].LeadTime.def /\ df[j].LeadTime.v > 1
        /\ df[j].RampTime.def /\ df[j].RampTime.v > 0
        /\ df[j].CycleTime.def

HasParseableTimestamp(change) == change.created.k \in {"ts", "none"}

WithoutUnparseable(log) == SelectSeq(log, HasParseableTimestamp)

\* C9: the results equal those computed from the changelog with every
\* unparseable-timestamp event removed.
C9_UnparseableDropped ==
    \A i \in DOMAIN rows :
        LET kept == WithoutUnparseable(Log(i))
        IN  /\ rows[i].BlockedDays = get_blocked_days(kept, now)
            /\ rows[i].Unassigned = get_peer_review_unassigned_time(rows[i].ID, kept, now)
            /\ i = Len(rows) => status_dates = get_status_transition_dates(kept)

\* C10: a provider failure on one item aborts only that item's row: when the
\* run has ended, every item processed successfully has its row in the frame
\* shown, and every item without a row is named in the failure report.
C10_PartialResults ==
    (pc \in {"done", "error"} /\ err # -1) =>
        /\ \A i \in DOMAIN rows : \E j \in DOMAIN df : df[j].row = rows[i]
        /\ \A k \in Keys : (\E j \in DOMAIN df : df[j].row.ID = k) \/ err = k

=============================================================================
